---- MODULE Spec2Model ----
(***************************************************************************)
(* Model of the authentication / authorization core of the LMS backend:    *)
(* the token codec (utils/jwt), the middleware (protect, authorize,        *)
(* optionalAuth), the User schema (validators, setters, pre-save hashing,  *)
(* unique e-mail index) and the auth handlers (register, login, getMe,     *)
(* updateProfile, logout).                                                 *)
(*                                                                         *)
(* Text that the code transforms (names, e-mail, password, bio, the        *)
(* Authorization header) is a sequence of one-character strings, so that   *)
(* trim, lowercase, length, startsWith and substring are computed.  Role   *)
(* and avatar are only compared or tested for emptiness and are atomic     *)
(* strings.  A JavaScript object is a record; an absent (undefined)        *)
(* property is a field missing from the record's DOMAIN.                   *)
(***************************************************************************)
EXTENDS Integers, Sequences, FiniteSets, TLC

VARIABLES
    users,    \* the User collection: users[i] is the document whose _id is i
    now,      \* the clock read by jwt.sign / jwt.verify and by timestamps
    pending,  \* pending[c]: the register call of client c suspended at an await
    held,     \* held[c]: the token client c stored from its last 200/201 response
    last      \* last[c]: the last finished exchange of client c

vars == <<users, now, pending, held, last>>

----------------------------------------------------------------------------
(* Bounds of the model *)

MaxUsers == 2      \* documents the collection may hold
MaxTime == 2       \* the clock stops ticking here
MaxSalt == 1       \* bcrypt.genSalt draws from 1..MaxSalt

----------------------------------------------------------------------------
(* Values of the language runtime *)

Null == [ok |-> FALSE]
Some(v) == [ok |-> TRUE, val |-> v]

Rep(ch, n) == [i \in 1..n |-> ch]

RECURSIVE TrimStart(_)
TrimStart(s) == IF s # <<>> /\ Head(s) = " " THEN TrimStart(Tail(s)) ELSE s

RECURSIVE TrimEnd(_)
TrimEnd(s) ==
    IF s # <<>> /\ s[Len(s)] = " " THEN TrimEnd(SubSeq(s, 1, Len(s) - 1)) ELSE s

\* String.prototype.trim
Trim(s) == TrimEnd(TrimStart(s))

UpperLetters ==
    <<"A","B","C","D","E","F","G","H","I","J","K","L","M",
      "N","O","P","Q","R","S","T","U","V","W","X","Y","Z">>
LowerLetters ==
    <<"a","b","c","d","e","f","g","h","i","j","k","l","m",
      "n","o","p","q","r","s","t","u","v","w","x","y","z">>
Digits == {"0","1","2","3","4","5","6","7","8","9"}

LowerChar(ch) ==
    IF \E i \in 1..26 : UpperLetters[i] = ch
    THEN LowerLetters[CHOOSE i \in 1..26 : UpperLetters[i] = ch]
    ELSE ch

\* String.prototype.toLowerCase
ToLowerCase(s) == [i \in 1..Len(s) |-> LowerChar(s[i])]

\* String.prototype.startsWith
StartsWith(s, prefix) ==
    /\ Len(s) >= Len(prefix)
    /\ \A i \in 1..Len(prefix) : s[i] = prefix[i]

\* String.prototype.substring(from) with a 0-based index
Substring(s, from) == SubSeq(s, from + 1, Len(s))

\* a property of an object is truthy: present and not the empty string
Truthy(obj, f) == f \in DOMAIN obj /\ obj[f] # <<>>
TruthyAtom(obj, f) == f \in DOMAIN obj /\ obj[f] # ""

\* the object restricted to the properties it has among fs (JSON drops undefined)
Pick(obj, fs) == [f \in (fs \cap DOMAIN obj) |-> obj[f]]

\* obj with property f set to v
Put(obj, f, v) == [g \in (DOMAIN obj \cup {f}) |-> IF g = f THEN v ELSE obj[g]]

\* res.status(code).json(body)
Response(code, body) == [status |-> code, json |-> body]

----------------------------------------------------------------------------
(* types/index.ts *)

STUDENT == "student"
INSTRUCTOR == "instructor"
ADMIN == "admin"
UserRole == {STUDENT, INSTRUCTOR, ADMIN}

----------------------------------------------------------------------------
(* utils/jwt and the jsonwebtoken calls it makes *)

\* process.env.JWT_SECRET || 'default-secret-key'
JwtSecret == "default-secret-key"

\* process.env.JWT_EXPIRE || '7d', in clock ticks of the model (one tick = 3.5 days)
JwtExpire == 2

\* the HS256 signature of a message under a key, kept symbolic
Hmac(key, msg) == [key |-> key, msg |-> msg]

\* jwt.sign(payload, secret, {expiresIn}): header.claims.signature
JwtSign(payload, secret, expiresIn) ==
    LET claims == payload @@ [iat |-> now, exp |-> now + expiresIn]
    IN  <<"HS256", claims, Hmac(secret, claims)>>

\* jwt.verify still accepting a token at the instant it expires
JwtVerifiesInclusive(token, secret, clock) ==
    /\ Len(token) = 3
    /\ token[1] = "HS256"
    /\ token[3] = Hmac(secret, token[2])
    /\ clock <= token[2].exp

\* jwt.verify(token, secret) returns the claims; FALSE here is a throw
JwtVerifies(token, secret, clock) ==
    /\ Len(token) = 3
    /\ token[1] = "HS256"
    /\ token[3] = Hmac(secret, token[2])
    /\ clock < token[2].exp

verifyTokenAt(token, clock) ==
    IF JwtVerifies(token, JwtSecret, clock) THEN Some(token[2]) ELSE Null

\* verifyToken with the expiry check lost (jwt.verify with ignoreExpiration)
verifyTokenIgnoringExpiry(token) ==
    IF Len(token) = 3 /\ token[1] = "HS256" /\ token[3] = Hmac(JwtSecret, token[2])
    THEN Some(token[2])
    ELSE Null

verifyToken(token) == verifyTokenAt(token, now)

Bearer == <<"B","e","a","r","e","r"," ">>

\* a header value that is no string (typeof 'object'): it is truthy and has no
\* startsWith method
NotAString == <<"[object Object]">>

\* extractToken throws (TypeError: authHeader.startsWith is not a function)
extractTokenThrows(authHeader) == authHeader.ok /\ authHeader.val = NotAString

\* extractToken matching the scheme without regard to case
extractTokenAnyCase(authHeader) ==
    IF \/ ~authHeader.ok
       \/ authHeader.val = <<>>
       \/ Len(authHeader.val) < Len(Bearer)
       \/ ToLowerCase(SubSeq(authHeader.val, 1, Len(Bearer))) # ToLowerCase(Bearer)
    THEN Null
    ELSE Some(Substring(authHeader.val, 7))

\* authHeader is Null for undefined
extractToken(authHeader) ==
    IF ~authHeader.ok \/ authHeader.val = <<>> \/ ~StartsWith(authHeader.val, Bearer)
    THEN Null
    ELSE Some(Substring(authHeader.val, 7))

\* req.headers.authorization
Authorization(req) ==
    IF "authorization" \in DOMAIN req.headers
    THEN Some(req.headers.authorization)
    ELSE Null

----------------------------------------------------------------------------
(* middleware/auth: what one middleware did with a request *)

\* the request as the middleware leaves it, the responses it sent, its calls of next
Outcome(req, sent, next) == [req |-> req, sent |-> sent, next |-> next]

ProtectNoToken ==
    Response(401, [success |-> FALSE,
                   message |-> "Not authorized. Please login to access this resource."])

ProtectBadToken ==
    Response(401, [success |-> FALSE,
                   message |-> "Invalid or expired token. Please login again."])

ProtectCaught ==
    Response(401, [success |-> FALSE, message |-> "Authentication failed"])

protect(req) ==
    IF extractTokenThrows(Authorization(req))
    THEN Outcome(req, <<ProtectCaught>>, 0)
    ELSE LET token == extractToken(Authorization(req))
         IN  IF ~token.ok \/ token.val = <<>>
             THEN Outcome(req, <<ProtectNoToken>>, 0)
             ELSE LET decoded == verifyToken(token.val)
                  IN  IF ~decoded.ok
                      THEN Outcome(req, <<ProtectBadToken>>, 0)
                      ELSE Outcome(Put(req, "user", decoded.val), <<>>, 1)

AuthorizeNoUser ==
    Response(401, [success |-> FALSE, message |-> "Not authenticated"])

\* the message lists roles.join(', ')
AuthorizeDenied(roles) ==
    Response(403, [success |-> FALSE,
                   message |-> "Access denied. This resource is only accessible to these users.",
                   roles |-> roles])

\* authorize with the return after the 403 response missing
authorizeFallsThrough(roles, req) ==
    IF "user" \notin DOMAIN req
    THEN Outcome(req, <<AuthorizeNoUser>>, 0)
    ELSE IF req.user.role \notin roles
         THEN Outcome(req, <<AuthorizeDenied(roles)>>, 1)
         ELSE Outcome(req, <<>>, 1)

authorize(roles, req) ==
    IF "user" \notin DOMAIN req
    THEN Outcome(req, <<AuthorizeNoUser>>, 0)
    ELSE IF req.user.role \notin roles
         THEN Outcome(req, <<AuthorizeDenied(roles)>>, 0)
         ELSE Outcome(req, <<>>, 1)

optionalAuth(req) ==
    IF extractTokenThrows(Authorization(req))
    THEN Outcome(req, <<>>, 1)
    ELSE LET token == extractToken(Authorization(req))
         IN  IF token.ok /\ token.val # <<>>
             THEN LET decoded == verifyToken(token.val)
                  IN  IF decoded.ok
                      THEN Outcome(Put(req, "user", decoded.val), <<>>, 1)
                      ELSE Outcome(req, <<>>, 1)
             ELSE Outcome(req, <<>>, 1)

----------------------------------------------------------------------------
(* models/User: the schema's setters, validators and defaults *)

MaxNameLength == 50
MaxBioLength == 500
MinPasswordLength == 6
BcryptRounds == 10
DefaultAvatar == "https://via.placeholder.com/150"

WordChars ==
    {UpperLetters[i] : i \in 1..26} \cup {LowerLetters[i] : i \in 1..26}
        \cup Digits \cup {"_"}

\* ^\w+([\.-]?\w+)*$
WordRun(s) ==
    /\ Len(s) >= 1
    /\ s[1] \in WordChars
    /\ s[Len(s)] \in WordChars
    /\ \A i \in 1..Len(s) : s[i] \in WordChars \cup {".", "-"}
    /\ \A i \in 1..(Len(s) - 1) : s[i] \in WordChars \/ s[i + 1] \in WordChars

\* ^(\.\w{2,3})+$
RECURSIVE TldRun(_)
TldRun(s) ==
    /\ Len(s) >= 3
    /\ s[1] = "."
    /\ \E k \in {2, 3} :
          /\ Len(s) >= 1 + k
          /\ \A i \in 2..(1 + k) : s[i] \in WordChars
          /\ (Len(s) = 1 + k \/ TldRun(SubSeq(s, 2 + k, Len(s))))

\* /^\w+([\.-]?\w+)*@\w+([\.-]?\w+)*(\.\w{2,3})+$/
EmailMatch(s) ==
    \E i \in 1..Len(s) :
        /\ s[i] = "@"
        /\ WordRun(SubSeq(s, 1, i - 1))
        /\ \E j \in (i + 1)..(Len(s) - 1) :
              /\ WordRun(SubSeq(s, i + 1, j))
              /\ TldRun(SubSeq(s, j + 1, Len(s)))

\* trim: true
SetName(v) == Trim(v)

\* lowercase: true, trim: true
SetEmail(v) == Trim(ToLowerCase(v))

\* the paths of a document that fail validation, among the paths validated
InvalidPaths(doc, paths) ==
    { p \in paths :
        \/ p \in {"firstName", "lastName"}
             /\ (~Truthy(doc, p) \/ Len(doc[p]) > MaxNameLength)
        \/ p = "email" /\ (~Truthy(doc, p) \/ ~EmailMatch(doc[p]))
        \/ p = "password" /\ (~Truthy(doc, p) \/ Len(doc[p]) < MinPasswordLength)
        \/ p = "role" /\ doc[p] \notin UserRole
        \/ p = "bio" /\ p \in DOMAIN doc /\ Len(doc[p]) > MaxBioLength }

ValidationError(paths) ==
    [name |-> "ValidationError",
     message |-> [text |-> "User validation failed", paths |-> paths]]

\* the unique index on email rejects the insert
DuplicateKeyError(email) ==
    [name |-> "MongoServerError",
     message |-> [text |-> "E11000 duplicate key error", key |-> email]]

\* bcrypt.hash(password, salt): the hash string embeds version, cost and salt
BcryptHash(password, salt) ==
    [version |-> "2a", cost |-> BcryptRounds, salt |-> salt,
     digest |-> <<salt, password>>]

\* bcrypt.compare(candidate, hash)
BcryptCompare(candidate, hash) == hash.digest = <<hash.salt, candidate>>

----------------------------------------------------------------------------
(* models/User: the collection *)

\* the password path without select: false
SelectedWithPassword(doc) == doc

\* select: false on password: a query returns the document without it
Selected(doc) == Pick(doc, DOMAIN doc \ {"password"})

\* User.findOne({ email }): the filter is cast by the schema (setters applied);
\* withPassword is .select('+password')
FindOneByEmail(email, withPassword) ==
    LET e == SetEmail(email)
    IN  IF \E i \in 1..Len(users) : users[i].email = e
        THEN LET doc == users[CHOOSE i \in 1..Len(users) : users[i].email = e]
             IN  Some(IF withPassword THEN doc ELSE Selected(doc))
        ELSE Null

\* User.findById(id); id is Null for undefined
FindById(id) ==
    IF id.ok /\ id.val \in 1..Len(users) THEN Some(Selected(users[id.val])) ELSE Null

\* new User(fields): setters and defaults applied, _id assigned
NewUser(fields) ==
    LET set == [f \in DOMAIN fields |->
                  IF f \in {"firstName", "lastName"} THEN SetName(fields[f])
                  ELSE IF f = "email" THEN SetEmail(fields[f])
                  ELSE fields[f]]
    IN  set @@ [_id |-> Len(users) + 1,
                role |-> STUDENT,
                avatar |-> DefaultAvatar,
                enrolledCourses |-> <<>>,
                createdCourses |-> <<>>,
                isVerified |-> FALSE,
                createdAt |-> now,
                updatedAt |-> now]

\* UserSchema.pre('save'): hash the password when it was modified
PreSave(doc, passwordModified, salt) ==
    IF passwordModified
    THEN [doc EXCEPT !.password = BcryptHash(doc.password, salt)]
    ELSE doc

SchemaPaths == {"firstName", "lastName", "email", "password", "role", "bio"}

\* User.create(fields): validate, pre-save hook, insert under the unique index.
\* [ok |-> TRUE, doc] or [ok |-> FALSE, error]
Create(fields, salt) ==
    LET doc == NewUser(fields)
        bad == InvalidPaths(doc, SchemaPaths)
    IN  IF bad # {}
        THEN [ok |-> FALSE, error |-> ValidationError(bad)]
        ELSE IF \E i \in 1..Len(users) : users[i].email = doc.email
             THEN [ok |-> FALSE, error |-> DuplicateKeyError(doc.email)]
             ELSE [ok |-> TRUE, doc |-> PreSave(doc, TRUE, salt)]

\* doc.save() of a loaded document: the modified paths are validated, the
\* pre-save hook runs, and the modified paths are written together with
\* updatedAt (timestamps: true).
\* [ok |-> TRUE, doc, stored] or [ok |-> FALSE, error]
Save(doc, modified, salt) ==
    LET bad == InvalidPaths(doc, modified)
        old == users[doc._id]
        hashed == PreSave(doc, "password" \in modified, salt)
        saved == IF modified # {} THEN [hashed EXCEPT !.updatedAt = now] ELSE hashed
        written == IF modified # {} THEN modified \cup {"updatedAt"} ELSE {}
    IN  IF bad # {}
        THEN [ok |-> FALSE, error |-> ValidationError(bad)]
        ELSE [ok |-> TRUE,
              doc |-> saved,
              stored |-> [f \in DOMAIN old \cup written |->
                            IF f \in written THEN saved[f] ELSE old[f]]]

\* UserSchema.methods.comparePassword
comparePassword(user, candidatePassword) ==
    BcryptCompare(candidatePassword, user.password)

\* getSignedJwtToken signing the schema's default role instead of the user's
getSignedJwtTokenDefaultRole(user) ==
    JwtSign([id |-> user._id, role |-> STUDENT, email |-> user.email],
            JwtSecret, JwtExpire)

\* UserSchema.methods.getSignedJwtToken
getSignedJwtToken(user) ==
    JwtSign([id |-> user._id, role |-> user.role, email |-> user.email],
            JwtSecret, JwtExpire)

----------------------------------------------------------------------------
(* One exchange: the request, the middleware it passed, the responses sent *)

NoFields == [f \in {} |-> TRUE]

Request(headers, body) == [headers |-> headers, body |-> body]

Protect == [mw |-> "protect", roles |-> {}]
OptionalAuth == [mw |-> "optionalAuth", roles |-> {}]
Authorize(roles) == [mw |-> "authorize", roles |-> roles]

Apply(m, req) ==
    CASE m.mw = "protect" -> protect(req)
      [] m.mw = "optionalAuth" -> optionalAuth(req)
      [] m.mw = "authorize" -> authorize(m.roles, req)

\* the middleware of a route run in order, each one reached only through next()
RECURSIVE RunChain(_, _)
RunChain(stack, req) ==
    IF stack = <<>>
    THEN <<>>
    ELSE LET out == Apply(Head(stack), req)
             step == [mw |-> Head(stack).mw, roles |-> Head(stack).roles,
                      in |-> req, out |-> out]
         IN  IF out.next > 0
             THEN <<step>> \o RunChain(Tail(stack), out.req)
             ELSE <<step>>

\* next() of the last middleware invokes the route's handler
Reached(stack, chain) ==
    /\ Len(chain) = Len(stack)
    /\ (chain = <<>> \/ chain[Len(chain)].out.next > 0)

\* the request as the handler receives it
Passed(req, chain) == IF chain = <<>> THEN req ELSE chain[Len(chain)].out.req

RECURSIVE SentBy(_)
SentBy(chain) ==
    IF chain = <<>> THEN <<>> ELSE Head(chain).out.sent \o SentBy(Tail(chain))

Exchange(op, req, chain, handled, sent) ==
    [op |-> op, at |-> now, req |-> req, chain |-> chain,
     handled |-> handled, sent |-> sent]

Idle == [pc |-> "idle"]

\* the client stores the token of a 200/201 response for its later requests
\* ("Frontend will store this token"), or goes on with a token it already has
Stores(c, token) ==
    {[held EXCEPT ![c] = Some(token)]} \cup (IF held[c].ok THEN {held} ELSE {})

----------------------------------------------------------------------------
(* controllers/auth *)

RegisterMissing ==
    Response(400, [success |-> FALSE, message |-> "Please provide all required fields"])

RegisterExists ==
    Response(400, [success |-> FALSE, message |-> "User with this email already exists"])

RegisterCreated(user, token) ==
    Response(201, [success |-> TRUE,
                   message |-> "User registered successfully",
                   data |-> [user |-> [id |-> user._id,
                                       firstName |-> user.firstName,
                                       lastName |-> user.lastName,
                                       email |-> user.email,
                                       role |-> user.role,
                                       avatar |-> user.avatar],
                             token |-> token]])

RegisterFailed(error) ==
    Response(500, [success |-> FALSE, message |-> "Error registering user",
                   error |-> error.message])

\* step 1 of register: some required field is falsy
RegisterInputMissing(body) ==
    \/ ~Truthy(body, "firstName")
    \/ ~Truthy(body, "lastName")
    \/ ~Truthy(body, "email")
    \/ ~Truthy(body, "password")

\* register leaving the role to the schema's default, whatever the body asks
RegisterFieldsDefaultRole(body) ==
    [firstName |-> body.firstName,
     lastName |-> body.lastName,
     email |-> body.email,
     password |-> body.password,
     role |-> "student"]

\* the object register passes to User.create
RegisterFields(body) ==
    [firstName |-> body.firstName,
     lastName |-> body.lastName,
     email |-> body.email,
     password |-> body.password,
     role |-> IF TruthyAtom(body, "role") THEN body.role ELSE "student"]

\* register up to its second await: validate the input, await User.findOne
RegisterLookup(c, body) ==
    LET req == Request(NoFields, body)
        proceeds == ~RegisterInputMissing(body) /\ ~FindOneByEmail(body.email, FALSE).ok
        creating == {d \in DOMAIN pending : pending[d].pc = "create"}
    IN  /\ pending[c].pc = "idle"
        /\ proceeds => Len(users) + Cardinality(creating) < MaxUsers
        /\ IF RegisterInputMissing(body)
           THEN /\ last' = [last EXCEPT ![c] =
                              Exchange("register", req, <<>>, TRUE, <<RegisterMissing>>)]
                /\ UNCHANGED pending
           ELSE IF FindOneByEmail(body.email, FALSE).ok
                THEN /\ last' = [last EXCEPT ![c] =
                                   Exchange("register", req, <<>>, TRUE, <<RegisterExists>>)]
                     /\ UNCHANGED pending
                ELSE /\ pending' = [pending EXCEPT ![c] = [pc |-> "create", req |-> req]]
                     /\ UNCHANGED last
        /\ UNCHANGED <<users, now, held>>

\* register from await User.create to its response
RegisterCreate(c, salt) ==
    /\ pending[c].pc = "create"
    /\ LET req == pending[c].req
           made == Create(RegisterFields(req.body), salt)
       IN  IF made.ok
           THEN LET token == getSignedJwtToken(made.doc)
                IN  /\ users' = Append(users, made.doc)
                    /\ held' \in Stores(c, token)
                    /\ last' = [last EXCEPT ![c] =
                                  Exchange("register", req, <<>>, TRUE,
                                           <<RegisterCreated(made.doc, token)>>)]
           ELSE /\ last' = [last EXCEPT ![c] =
                              Exchange("register", req, <<>>, TRUE,
                                       <<RegisterFailed(made.error)>>)]
                /\ UNCHANGED <<users, held>>
    /\ pending' = [pending EXCEPT ![c] = Idle]
    /\ UNCHANGED now

LoginMissing ==
    Response(400, [success |-> FALSE, message |-> "Please provide email and password"])

\* login telling an unknown e-mail apart from a wrong password
LoginUnknownUserTelling ==
    Response(404, [success |-> FALSE, message |-> "No account with this email"])

LoginUnknownUser ==
    Response(401, [success |-> FALSE, message |-> "Invalid credentials"])

LoginWrongPassword ==
    Response(401, [success |-> FALSE, message |-> "Invalid credentials"])

LoginOk(user, token) ==
    Response(200, [success |-> TRUE,
                   message |-> "Login successful",
                   data |-> [user |-> [id |-> user._id] @@
                                      Pick(user, {"firstName", "lastName", "email",
                                                  "role", "avatar", "bio"}),
                             token |-> token]])

login(req) ==
    IF ~Truthy(req.body, "email") \/ ~Truthy(req.body, "password")
    THEN LoginMissing
    ELSE LET user == FindOneByEmail(req.body.email, TRUE)
         IN  IF ~user.ok
             THEN LoginUnknownUser
             ELSE IF ~comparePassword(user.val, req.body.password)
                  THEN LoginWrongPassword
                  ELSE LoginOk(user.val, getSignedJwtToken(user.val))

Login(c, body) ==
    LET req == Request(NoFields, body)
        res == login(req)
    IN  /\ pending[c].pc = "idle"
        /\ last' = [last EXCEPT ![c] = Exchange("login", req, <<>>, TRUE, <<res>>)]
        /\ IF res.status = 200
           THEN held' \in Stores(c, res.json.data.token)
           ELSE held' = held
        /\ UNCHANGED <<users, now, pending>>

\* req.user?.id
UserId(req) == IF "user" \in DOMAIN req THEN Some(req.user.id) ELSE Null

UserNotFound ==
    Response(404, [success |-> FALSE, message |-> "User not found"])

GetMeOk(user) ==
    Response(200, [success |-> TRUE,
                   data |-> [user |-> [id |-> user._id] @@
                                      Pick(user, {"firstName", "lastName", "email",
                                                  "role", "avatar", "bio",
                                                  "enrolledCourses", "createdCourses",
                                                  "createdAt"})]])

getMe(req) ==
    LET user == FindById(UserId(req))
    IN  IF ~user.ok THEN UserNotFound ELSE GetMeOk(user.val)

UpdateOk(user) ==
    Response(200, [success |-> TRUE,
                   message |-> "Profile updated successfully",
                   data |-> [user |-> user]])

UpdateFailed(error) ==
    Response(500, [success |-> FALSE, message |-> "Error updating profile",
                   error |-> error.message])

\* updateProfile testing bio for truthiness like the other fields
UpdateAppliesIfTruthy(body, f) ==
    CASE f \in {"firstName", "lastName", "bio"} -> Truthy(body, f)
      [] f = "avatar" -> TruthyAtom(body, f)

\* the assignments of updateProfile: the paths of the body that are applied
UpdateApplies(body, f) ==
    CASE f \in {"firstName", "lastName"} -> Truthy(body, f)
      [] f = "bio" -> f \in DOMAIN body
      [] f = "avatar" -> TruthyAtom(body, f)

\* doc.path = value: the setter runs on the value
Assigned(body, f) ==
    IF f \in {"firstName", "lastName"} THEN SetName(body[f]) ELSE body[f]

ProfileFields == {"firstName", "lastName", "bio", "avatar"}

\* updateProfile: [res |-> the response, users |-> the collection afterwards]
updateProfile(req, salt) ==
    LET user == FindById(UserId(req))
    IN  IF ~user.ok
        THEN [res |-> UserNotFound, users |-> users]
        ELSE LET applied == {f \in ProfileFields : UpdateApplies(req.body, f)}
                 doc == [f \in DOMAIN user.val \cup applied |->
                           IF f \in applied THEN Assigned(req.body, f) ELSE user.val[f]]
                 modified == {f \in applied :
                                f \notin DOMAIN user.val \/ user.val[f] # doc[f]}
                 saved == Save(doc, modified, salt)
             IN  IF saved.ok
                 THEN [res |-> UpdateOk(saved.doc),
                       users |-> [users EXCEPT ![doc._id] = saved.stored]]
                 ELSE [res |-> UpdateFailed(saved.error), users |-> users]

LogoutOk ==
    Response(200, [success |-> TRUE, message |-> "Logged out successfully"])

logout(req) == LogoutOk

\* GET /api/auth/me behind protect
GetMe(c, headers) ==
    LET req == Request(headers, NoFields)
        chain == RunChain(<<Protect>>, req)
        handled == Reached(<<Protect>>, chain)
        sent == SentBy(chain) \o (IF handled THEN <<getMe(Passed(req, chain))>> ELSE <<>>)
    IN  /\ pending[c].pc = "idle"
        /\ last' = [last EXCEPT ![c] = Exchange("getMe", req, chain, handled, sent)]
        /\ UNCHANGED <<users, now, pending, held>>

\* PUT /api/auth/update-profile behind protect
UpdateProfile(c, headers, body, salt) ==
    LET req == Request(headers, body)
        chain == RunChain(<<Protect>>, req)
        handled == Reached(<<Protect>>, chain)
        done == updateProfile(Passed(req, chain), salt)
    IN  /\ pending[c].pc = "idle"
        /\ IF handled
           THEN /\ users' = done.users
                /\ last' = [last EXCEPT ![c] =
                              Exchange("updateProfile", req, chain, TRUE,
                                       SentBy(chain) \o <<done.res>>)]
           ELSE /\ last' = [last EXCEPT ![c] =
                              Exchange("updateProfile", req, chain, FALSE, SentBy(chain))]
                /\ UNCHANGED users
        /\ UNCHANGED <<now, pending, held>>

\* POST /api/auth/logout behind protect
Logout(c, headers) ==
    LET req == Request(headers, NoFields)
        chain == RunChain(<<Protect>>, req)
        handled == Reached(<<Protect>>, chain)
        sent == SentBy(chain) \o (IF handled THEN <<logout(Passed(req, chain))>> ELSE <<>>)
    IN  /\ pending[c].pc = "idle"
        /\ last' = [last EXCEPT ![c] = Exchange("logout", req, chain, handled, sent)]
        /\ UNCHANGED <<users, now, pending, held>>

\* a route guarded by a stack of middleware (router.post(path, ...stack, handler));
\* its handler is outside this core and only its invocation is recorded
Guarded(c, headers, stack) ==
    LET req == Request(headers, NoFields)
        chain == RunChain(stack, req)
    IN  /\ pending[c].pc = "idle"
        /\ last' = [last EXCEPT ![c] =
                      Exchange("guarded", req, chain, Reached(stack, chain), SentBy(chain))]
        /\ UNCHANGED <<users, now, pending, held>>

\* time passes
Tick ==
    /\ now < MaxTime
    /\ now' = now + 1
    /\ UNCHANGED <<users, pending, held, last>>

----------------------------------------------------------------------------
(* The requests the clients send *)

Ann == <<"A","n","n">>
Lee == <<"L","e","e">>
Al == <<"A","l">>
Hi == <<"h","i">>
EmailA == <<"a","@","x",".","i","o">>
EmailAUpper == <<"A","@","x",".","i","o">>
EmailB == <<"b","@","x",".","i","o">>
EmailNoTld == <<"a","@","x">>
Secret == <<"s","e","c","r","e","t">>
Hunter == <<"h","u","n","t","e","r">>
Short == <<"1","2","3","4","5">>

ValidRegisterBodies ==
    { [firstName |-> Ann, lastName |-> Lee, email |-> EmailA, password |-> Secret],
      [firstName |-> <<" ">> \o Ann, lastName |-> Lee, email |-> EmailAUpper,
       password |-> Hunter, role |-> ADMIN],
      [firstName |-> Al, lastName |-> Lee, email |-> EmailB, password |-> Hunter,
       role |-> INSTRUCTOR] }

MissingRegisterBodies ==
    { [firstName |-> Ann, lastName |-> Lee, email |-> EmailA],
      [firstName |-> <<>>, lastName |-> Lee, email |-> EmailB, password |-> Secret] }

MalformedRegisterBodies ==
    { [firstName |-> Ann, lastName |-> Lee, email |-> EmailB, password |-> Short],
      [firstName |-> Ann, lastName |-> Lee, email |-> EmailNoTld, password |-> Secret],
      [firstName |-> Ann, lastName |-> Lee, email |-> EmailB, password |-> Secret,
       role |-> "root"],
      [firstName |-> Rep("n", MaxNameLength + 1), lastName |-> Lee, email |-> EmailB,
       password |-> Secret],
      [firstName |-> Ann, lastName |-> <<" ">>, email |-> EmailB, password |-> Secret] }

RegisterBodies == ValidRegisterBodies \cup MissingRegisterBodies \cup MalformedRegisterBodies

LoginBodies ==
    { [email |-> e, password |-> p] :
        e \in {EmailA, EmailAUpper, EmailB}, p \in {Secret, Hunter} }
    \cup { [email |-> EmailA], [password |-> Secret],
           [email |-> <<>>, password |-> Secret] }

UpdateBodies ==
    { NoFields,
      [firstName |-> <<>>],
      [firstName |-> <<" ">> \o Al],
      [firstName |-> <<" ">>],
      [lastName |-> Rep("n", MaxNameLength + 1)],
      [bio |-> <<>>],
      [bio |-> Hi],
      [bio |-> Rep("b", MaxBioLength + 1)],
      [avatar |-> ""],
      [avatar |-> "pic.png"],
      [firstName |-> Al, lastName |-> <<>>, bio |-> Hi, avatar |-> ""] }

\* what an attacker makes of a token: the role raised under the old signature,
\* and the same claims signed with another key
Tampered(token) == <<token[1], [token[2] EXCEPT !.role = ADMIN], token[3]>>
Forged(token) == <<token[1], token[2], Hmac("guessed-secret", token[2])>>
Garbage == <<"x", "y">>

BearerLower == <<"b","e","a","r","e","r"," ">>
BearerNoSpace == <<"B","e","a","r","e","r">>

\* the Authorization header values client c may send
HeaderValues(c) ==
    LET mine == IF held[c].ok THEN {held[c].val} ELSE {Garbage}
        tokens == mine \cup {Garbage, <<>>}
                    \cup (IF held[c].ok
                          THEN {Tampered(held[c].val), Forged(held[c].val)}
                          ELSE {})
    IN  {Bearer \o t : t \in tokens}
          \cup {pre \o t : pre \in {BearerLower, BearerNoSpace}, t \in mine}
          \cup {<<>>, NotAString}

Headers(c) == {NoFields} \cup {[authorization |-> v] : v \in HeaderValues(c)}

\* the header a well-behaved client sends
OwnHeaders(c) ==
    IF held[c].ok THEN {[authorization |-> Bearer \o held[c].val]} ELSE {NoFields}

Stacks ==
    { <<Protect>>, <<OptionalAuth>>,
      <<Authorize({ADMIN})>>,
      <<Protect, Authorize({ADMIN})>>,
      <<Protect, Authorize({INSTRUCTOR, ADMIN})>>,
      <<OptionalAuth, Authorize({STUDENT})>> }

Salts == 1..MaxSalt

----------------------------------------------------------------------------
(* Specifications *)

NoExchange ==
    [op |-> "none", at |-> 0, req |-> Request(NoFields, NoFields), chain |-> <<>>,
     handled |-> FALSE, sent |-> <<>>]

InitFor(clients) ==
    /\ users = <<>>
    /\ now = 0
    /\ pending = [c \in clients |-> Idle]
    /\ held = [c \in clients |-> Null]
    /\ last = [c \in clients |-> NoExchange]

Clients == DOMAIN last

(* The middleware: one client, two registrations that give a student and an
   admin identity, every header an honest or a hostile client may send, every
   middleware stack, and the clock running past the token's expiry *)

AuthRegisterBodies ==
    { b \in ValidRegisterBodies : SetEmail(b.email) = EmailA }

AuthLoginBodies ==
    { [email |-> EmailA, password |-> p] : p \in {Secret, Hunter} }

InitAuth == InitFor({"c1"})

NextAuth ==
    \/ \E c \in Clients, b \in AuthRegisterBodies : RegisterLookup(c, b)
    \/ \E c \in Clients, s \in Salts : RegisterCreate(c, s)
    \/ \E c \in Clients, b \in AuthLoginBodies : Login(c, b)
    \/ \E c \in Clients : \E h \in Headers(c) : GetMe(c, h)
    \/ \E c \in Clients : \E h \in Headers(c) : Logout(c, h)
    \/ \E c \in Clients, st \in Stacks : \E h \in Headers(c) : Guarded(c, h, st)
    \/ Tick

SpecAuth == InitAuth /\ [][NextAuth]_vars

----------------------------------------------------------------------------
(* Claims about the middleware *)

\* every middleware step of the last exchange of some client
Steps ==
    UNION { { [at |-> last[c].at, step |-> last[c].chain[i]] :
                i \in 1..Len(last[c].chain) } : c \in Clients }

StepsOf(name) == { x \in Steps : x.step.mw = name }

\* the header carries 'Bearer ' followed by a token verifyToken accepted then
Accepted(req, at) ==
    /\ Authorization(req).ok
    /\ StartsWith(Authorization(req).val, Bearer)
    /\ verifyTokenAt(Substring(Authorization(req).val, 7), at).ok

DecodedAt(req, at) == verifyTokenAt(Substring(Authorization(req).val, 7), at).val

\* C1: protect calls next exactly when the Authorization header starts with
\* 'Bearer ' and verifyToken accepts the rest, and then the request carries the
\* decoded payload as its identity and no response was sent; in every other case
\* it sends one 401 response, never calls next and attaches no identity.  The
\* handler of a route behind protect runs exactly in the first case.
C1_ProtectGate ==
    /\ \A x \in StepsOf("protect") :
         LET in == x.step.in
             out == x.step.out
         IN  IF Accepted(in, x.at)
             THEN /\ out.next = 1
                  /\ out.sent = <<>>
                  /\ "user" \in DOMAIN out.req
                  /\ out.req.user = DecodedAt(in, x.at)
             ELSE /\ out.next = 0
                  /\ Len(out.sent) = 1
                  /\ out.sent[1].status = 401
                  /\ "user" \notin DOMAIN out.req
    /\ \A c \in Clients :
         last[c].op \in {"getMe", "logout"} =>
            (last[c].handled <=> Accepted(last[c].req, last[c].at))

C1_Witness ==
    \E c \in Clients :
        /\ last[c].op = "getMe"
        /\ last[c].handled
        /\ last[c].chain[1].out.req.user.role = ADMIN
        /\ last[c].at > last[c].chain[1].out.req.user.iat

\* C2: the guard authorize(roles) ends in exactly one of three outcomes: one 401
\* response when the request has no identity, one 403 response when the
\* identity's role is not among roles, next called when it is; it never both
\* responds and calls next.
C2_AuthorizeOutcomes ==
    \A x \in StepsOf("authorize") :
        LET in == x.step.in
            out == x.step.out
        IN  /\ Len(out.sent) + out.next = 1
            /\ "user" \notin DOMAIN in =>
                  out.next = 0 /\ out.sent[1].status = 401
            /\ "user" \in DOMAIN in /\ in.user.role \notin x.step.roles =>
                  out.next = 0 /\ out.sent[1].status = 403
            /\ "user" \in DOMAIN in /\ in.user.role \in x.step.roles =>
                  out.next = 1

\* authorize(ADMIN) has turned a student away with 403
C2_Witness ==
    \E x \in StepsOf("authorize") :
        /\ x.step.roles = {ADMIN}
        /\ "user" \in DOMAIN x.step.in
        /\ x.step.in.user.role = STUDENT
        /\ x.step.out.sent # <<>>
        /\ x.step.out.sent[1].status = 403

\* C3: optionalAuth sends no response and calls next once for every request; the
\* request carries an identity afterwards exactly when its header held a token
\* verifyToken accepted, and then the identity is the decoded payload.
C3_OptionalNeverRejects ==
    \A x \in StepsOf("optionalAuth") :
        LET in == x.step.in
            out == x.step.out
        IN  /\ out.sent = <<>>
            /\ out.next = 1
            /\ "user" \in DOMAIN out.req <=> Accepted(in, x.at)
            /\ Accepted(in, x.at) => out.req.user = DecodedAt(in, x.at)

\* optionalAuth let a request with a well-formed but expired token through
C3_Witness ==
    \E x \in StepsOf("optionalAuth") :
        /\ Authorization(x.step.in).ok
        /\ StartsWith(Authorization(x.step.in).val, Bearer)
        /\ JwtVerifies(Substring(Authorization(x.step.in).val, 7), JwtSecret, 0)
        /\ ~Accepted(x.step.in, x.at)
        /\ x.step.out.next = 1
        /\ "user" \notin DOMAIN x.step.out.req

----------------------------------------------------------------------------
(* Concurrent registration: two clients, each sending one register request
   with all required fields; the awaits of the two calls interleave freely *)

InitRace == InitFor({"c1", "c2"})

NextRace ==
    \/ \E c \in Clients, b \in ValidRegisterBodies :
          last[c].op = "none" /\ RegisterLookup(c, b)
    \/ \E c \in Clients, s \in Salts : RegisterCreate(c, s)
    \/ Tick

SpecRace == InitRace /\ [][NextRace]_vars

StatusOf(c) == last[c].sent[1].status

\* the documents of the collection with this e-mail
WithEmail(e) == { i \in 1..Len(users) : users[i].email = e }

\* C4: of two register requests that carry the same e-mail and all required
\* fields, however their lookups and inserts interleave, exactly one is answered
\* 201 and the other 400, and the collection never holds two documents with that
\* e-mail.
C4_SecondRegistrationRejected ==
    /\ \A i \in 1..Len(users) : Cardinality(WithEmail(users[i].email)) = 1
    /\ \A c, d \in Clients :
         /\ c # d
         /\ last[c].op = "register"
         /\ last[d].op = "register"
         /\ last[c].req.body.email = last[d].req.body.email
         => {StatusOf(c), StatusOf(d)} = {201, 400}

----------------------------------------------------------------------------
(* Credentials: one client registering and logging in with known and unknown
   e-mails, right and wrong passwords, while time passes *)

InitLogin == InitFor({"c1"})

NextLogin ==
    \/ \E c \in Clients, b \in ValidRegisterBodies : RegisterLookup(c, b)
    \/ \E c \in Clients, s \in Salts : RegisterCreate(c, s)
    \/ \E c \in Clients, b \in LoginBodies : Login(c, b)
    \/ Tick

SpecLogin == InitLogin /\ [][NextLogin]_vars

\* login bodies that pass the presence check
FullLoginBodies ==
    { b \in LoginBodies : Truthy(b, "email") /\ Truthy(b, "password") }

NoRecord(b) == ~FindOneByEmail(b.email, TRUE).ok

PasswordMatches(b) ==
    /\ FindOneByEmail(b.email, TRUE).ok
    /\ comparePassword(FindOneByEmail(b.email, TRUE).val, b.password)

LoginOf(b) == login(Request(NoFields, b))

\* C5: in every state of the collection, a login with an e-mail that has no
\* record and a login with an existing e-mail and a wrong password get the same
\* response, status 401 with the same message and no token; login answers 200
\* with a token exactly when the record exists and comparePassword is true.
C5_LoginDoesNotEnumerate ==
    /\ \A b1, b2 \in FullLoginBodies :
         NoRecord(b1) /\ ~NoRecord(b2) /\ ~PasswordMatches(b2) =>
            /\ LoginOf(b1).status = 401
            /\ LoginOf(b1) = LoginOf(b2)
            /\ "data" \notin DOMAIN LoginOf(b1).json
    /\ \A b \in FullLoginBodies :
         /\ LoginOf(b).status = 200 <=> PasswordMatches(b)
         /\ "data" \in DOMAIN LoginOf(b).json <=> LoginOf(b).status = 200

\* a login with a registered e-mail and a wrong password was answered 401 while
\* another e-mail is still unknown
C5_Witness ==
    \E c \in Clients :
        /\ last[c].op = "login"
        /\ last[c].req.body \in FullLoginBodies
        /\ ~NoRecord(last[c].req.body)
        /\ ~PasswordMatches(last[c].req.body)
        /\ StatusOf(c) = 401
        /\ \E b \in FullLoginBodies : NoRecord(b)

\* C6: the token of every 201 register response and every 200 login response
\* verifies at the time of the response, and its id, role and e-mail are those of
\* the document the request created or loaded (the document with the request's
\* e-mail, whose id the response names).
C6_TokenCarriesRecord ==
    \A c \in Clients :
        last[c].op \in {"register", "login"} /\ StatusOf(c) \in {200, 201} =>
            LET data == last[c].sent[1].json.data
                decoded == verifyTokenAt(data.token, last[c].at)
            IN  /\ decoded.ok
                /\ decoded.val.id = data.user.id
                /\ decoded.val.id \in 1..Len(users)
                /\ users[decoded.val.id]._id = decoded.val.id
                /\ users[decoded.val.id].role = decoded.val.role
                /\ users[decoded.val.id].email = decoded.val.email
                /\ users[decoded.val.id].email = SetEmail(last[c].req.body.email)
                /\ last[c].op = "register" =>
                      /\ StatusOf(c) = 201
                      /\ users[decoded.val.id].createdAt = last[c].at

\* an admin registered with an upper-case e-mail and got a token
C6_Witness ==
    \E c \in Clients :
        /\ last[c].op = "register"
        /\ StatusOf(c) = 201
        /\ last[c].req.body.email = EmailAUpper
        /\ last[c].sent[1].json.data.token[2].role = ADMIN

----------------------------------------------------------------------------
(* The profile routes: one client that registers with valid, incomplete and
   malformed input, logs in, and reads, updates and logs out with the token it
   holds or with none *)

ProfileLoginBodies ==
    { [email |-> EmailA, password |-> Secret],
      [email |-> EmailB, password |-> Hunter],
      [email |-> EmailA, password |-> Hunter],
      [email |-> EmailA] }

ProfileRegisterBodies ==
    { b \in ValidRegisterBodies : b.email = EmailA }
        \cup MissingRegisterBodies \cup MalformedRegisterBodies

ProfileHeaders(c) == OwnHeaders(c) \cup {NoFields}

InitProfile == InitFor({"c1"})

NextProfile ==
    \/ \E c \in Clients, b \in ProfileRegisterBodies : RegisterLookup(c, b)
    \/ \E c \in Clients, s \in Salts : RegisterCreate(c, s)
    \/ \E c \in Clients, b \in ProfileLoginBodies : Login(c, b)
    \/ \E c \in Clients : \E h \in ProfileHeaders(c) : GetMe(c, h)
    \/ \E c \in Clients, b \in UpdateBodies, s \in Salts :
          \E h \in ProfileHeaders(c) : UpdateProfile(c, h, b, s)
    \/ \E c \in Clients : \E h \in ProfileHeaders(c) : Logout(c, h)

SpecProfile == InitProfile /\ [][NextProfile]_vars

----------------------------------------------------------------------------
(* Claims about the handlers *)

\* no object of a response body has a password property
NoPasswordIn(json) ==
    /\ "password" \notin DOMAIN json
    /\ "error" \in DOMAIN json => "password" \notin DOMAIN json.error
    /\ "data" \in DOMAIN json =>
          /\ "password" \notin DOMAIN json.data
          /\ "user" \in DOMAIN json.data => "password" \notin DOMAIN json.data.user

\* no text property of the returned user repeats the password the request carried
NoPasswordEcho(req, json) ==
    "password" \in DOMAIN req.body /\ "data" \in DOMAIN json =>
        \A f \in {"firstName", "lastName", "email", "bio"} \cap DOMAIN json.data.user :
            json.data.user[f] # req.body.password

\* C7: no response of register, login, getMe, updateProfile or logout, success
\* or error, carries a password property (plaintext or hash) in its body, its
\* data, its user object or its error detail, nor the request's password under
\* another property of the user object; updateProfile returns the saved document
\* itself and is included.
C7_PasswordNeverReturned ==
    \A c \in Clients :
        \A i \in 1..Len(last[c].sent) :
            /\ NoPasswordIn(last[c].sent[i].json)
            /\ NoPasswordEcho(last[c].req, last[c].sent[i].json)

\* updateProfile answered 200 with the saved document of a user whose stored
\* document has a password hash
C7_Witness ==
    \E c \in Clients :
        /\ last[c].op = "updateProfile"
        /\ last[c].handled
        /\ StatusOf(c) = 200
        /\ "email" \in DOMAIN last[c].sent[1].json.data.user
        /\ "password" \in DOMAIN users[last[c].sent[1].json.data.user._id]

\* the updateProfile steps: the body sent and the document before and after
UpdateSteps(P(_, _, _, _)) ==
    \A c \in Clients, b \in UpdateBodies, s \in Salts :
        \A h \in ProfileHeaders(c) :
            UpdateProfile(c, h, b, s) => P(c, b, users, users')

\* the document the request of client c was about
Target(c, coll) == coll[last'[c].chain[1].out.req.user.id]

SameField(old, new, f) == Pick(old, {f}) = Pick(new, {f})

OthersKept(c, before, after) ==
    /\ Len(after) = Len(before)
    /\ \A j \in 1..Len(before) :
         j # Target(c, before)._id => after[j] = before[j]
    /\ \A f \in (DOMAIN Target(c, before) \cup DOMAIN Target(c, after))
                  \ (ProfileFields \cup {"updatedAt"}) :
         SameField(Target(c, before), Target(c, after), f)

ByPresence(c, b, before, after) ==
    IF last'[c].handled /\ last'[c].sent[1].status = 200
    THEN /\ \A f \in ProfileFields :
              IF f \in DOMAIN b
              THEN f \in DOMAIN Target(c, after) /\ Target(c, after)[f] = b[f]
              ELSE SameField(Target(c, before), Target(c, after), f)
         /\ OthersKept(c, before, after)
    ELSE after = before

\* C8 as claimed: a successful updateProfile sets each of first name, last name,
\* bio and avatar to the input value when the body has the field, an empty value
\* included, leaves it unchanged when the body lacks it, and changes nothing else
\* (the updatedAt stamp of the store aside).
C8_UpdateByPresence == [][UpdateSteps(ByPresence)]_vars

AsApplied(c, b, before, after) ==
    IF last'[c].handled /\ last'[c].sent[1].status = 200
    THEN /\ \A f \in {"firstName", "lastName"} :
              Target(c, after)[f] =
                  IF Truthy(b, f) THEN Trim(b[f]) ELSE Target(c, before)[f]
         /\ Target(c, after).avatar =
                  IF TruthyAtom(b, "avatar") THEN b.avatar ELSE Target(c, before).avatar
         /\ IF "bio" \in DOMAIN b
            THEN "bio" \in DOMAIN Target(c, after) /\ Target(c, after).bio = b.bio
            ELSE SameField(Target(c, before), Target(c, after), "bio")
         /\ OthersKept(c, before, after)
    ELSE after = before

\* C8 amended: a successful updateProfile sets first name and last name to the
\* trimmed input and avatar to the input when the body has a non-empty value for
\* them and leaves them unchanged when the value is absent or empty; it sets bio
\* to the input whenever the body has it, the empty string included; it changes
\* no other field (the updatedAt stamp of the store aside) and no other document;
\* a request that is not answered 200 changes nothing.
C8_UpdateAsApplied == [][UpdateSteps(AsApplied)]_vars

\* one update cleared nothing for an empty last name and avatar and stored the
\* other two fields
C8_Witness ==
    \E c \in Clients :
        /\ last[c].op = "updateProfile"
        /\ last[c].handled
        /\ StatusOf(c) = 200
        /\ last[c].req.body = [firstName |-> Al, lastName |-> <<>>, bio |-> Hi,
                               avatar |-> ""]
        /\ last[c].sent[1].json.data.user.firstName = Al
        /\ last[c].sent[1].json.data.user.lastName = Lee
        /\ last[c].sent[1].json.data.user.bio = Hi
        /\ last[c].sent[1].json.data.user.avatar = DefaultAvatar

\* the input of a finished exchange is missing a required field or is one the
\* schema's validators reject
InputRejected(x) ==
    CASE x.op = "register" ->
            \/ RegisterInputMissing(x.req.body)
            \/ InvalidPaths(NewUser(RegisterFields(x.req.body)), SchemaPaths) # {}
      [] x.op = "login" ->
            ~Truthy(x.req.body, "email") \/ ~Truthy(x.req.body, "password")
      [] x.op = "updateProfile" ->
            \E f \in ProfileFields :
                /\ UpdateApplies(x.req.body, f)
                /\ InvalidPaths([g \in {f} |-> Assigned(x.req.body, g)], {f}) # {}
      [] OTHER -> FALSE

\* C9: every register, login or updateProfile request whose input is missing a
\* required field or is rejected by a validator of the schema is answered 400 and
\* leaves the collection unchanged; 500 is never the answer to such input.
C9_BadInputIs400 ==
    [][\A c \in Clients :
          last'[c] # last[c] /\ last'[c].handled /\ InputRejected(last'[c]) =>
              /\ last'[c].sent[1].status = 400
              /\ users' = users]_vars

----------------------------------------------------------------------------
(* Sessions: one client that registers two accounts, logs in to either, keeps
   or replaces the token it holds, and uses the profile routes and logout
   while the clock runs up to and past the expiry of its token *)

SessionRegisterBodies == { b \in ValidRegisterBodies : "role" \notin DOMAIN b \/ b.email = EmailB }

SessionLoginBodies ==
    { [email |-> EmailA, password |-> Secret],
      [email |-> EmailB, password |-> Hunter] }

SessionUpdateBodies == { [firstName |-> Al, bio |-> Hi] }

InitSession == InitFor({"c1"})

NextSession ==
    \/ \E c \in Clients, b \in SessionRegisterBodies : RegisterLookup(c, b)
    \/ \E c \in Clients, s \in Salts : RegisterCreate(c, s)
    \/ \E c \in Clients, b \in SessionLoginBodies : Login(c, b)
    \/ \E c \in Clients : \E h \in OwnHeaders(c) : GetMe(c, h)
    \/ \E c \in Clients, b \in SessionUpdateBodies, s \in Salts :
          \E h \in OwnHeaders(c) : UpdateProfile(c, h, b, s)
    \/ \E c \in Clients : \E h \in OwnHeaders(c) : Logout(c, h)
    \/ Tick

SpecSession == InitSession /\ [][NextSession]_vars

\* what protect does now with the token client c holds
ProtectHeld(c) ==
    protect(Request([authorization |-> Bearer \o held[c].val], NoFields))

\* a token the server issued is accepted by protect, with the identity it was
\* issued for, in every state before its expiry and rejected with 401 in every
\* state from its expiry on, whatever was requested since it was issued
HeldTokenStands ==
    \A c \in Clients :
        held[c].ok =>
            IF now < held[c].val[2].exp
            THEN /\ ProtectHeld(c).next = 1
                 /\ ProtectHeld(c).sent = <<>>
                 /\ ProtectHeld(c).req.user = held[c].val[2]
            ELSE /\ ProtectHeld(c).next = 0
                 /\ Len(ProtectHeld(c).sent) = 1
                 /\ ProtectHeld(c).sent[1].status = 401

\* logout answers 200 whenever it is reached and changes neither the collection
\* nor the token the client holds; a request protect turns away changes nothing
\* but the record of the exchange
LogoutChangesNothing ==
    \A c \in Clients :
        /\ last'[c] # last[c] /\ last'[c].op = "logout" =>
              /\ UNCHANGED <<users, held, pending, now>>
              /\ last'[c].handled => last'[c].sent = <<LogoutOk>>
        /\ last'[c] # last[c] /\ last'[c].op \in {"getMe", "updateProfile", "logout"}
              /\ ~last'[c].handled =>
              UNCHANGED <<users, held, pending, now>>

\* C10: no revocation.  A token issued by register or login is accepted by
\* protect with the same identity {id, role, email} in every later state before
\* its expiry, through logout with that token, profile updates, further logins
\* and registrations, and is rejected with 401 in every state after its expiry;
\* logout changes no server-side state and answers 200.
C10_NoRevocation == []HeldTokenStands /\ [][LogoutChangesNothing]_vars

\* the client logged out with the token it holds, time has passed, and the
\* token is not yet expired
C10_Witness ==
    \E c \in Clients :
        /\ held[c].ok
        /\ last[c].op = "logout"
        /\ last[c].handled
        /\ last[c].req.headers = [authorization |-> Bearer \o held[c].val]
        /\ now > last[c].at
        /\ now < held[c].val[2].exp

----------------------------------------------------------------------------
(* Self-assigned roles: one client that registers, without credentials, with
   no role, each role of the enum, an empty role and a role outside the enum,
   and then calls routes behind protect and authorize(R) with the token it
   was given, while the clock runs past the token's expiry *)

RoleRegisterBodies ==
    { [firstName |-> Ann, lastName |-> Lee, email |-> e, password |-> Secret] :
        e \in {EmailA, EmailB} }
    \cup { [firstName |-> Ann, lastName |-> Lee, email |-> EmailA, password |-> Secret,
            role |-> r] : r \in UserRole \cup {"", "root"} }
    \cup { [firstName |-> Al, lastName |-> Lee, email |-> EmailB, password |-> Hunter,
            role |-> ADMIN] }

RoleStacks ==
    { <<Protect, Authorize(R)>> :
        R \in {{STUDENT}, {ADMIN}, {INSTRUCTOR, ADMIN}, {}} }

InitRole == InitFor({"c1"})

NextRole ==
    \/ \E c \in Clients, b \in RoleRegisterBodies : RegisterLookup(c, b)
    \/ \E c \in Clients, s \in Salts : RegisterCreate(c, s)
    \/ \E c \in Clients, st \in RoleStacks : \E h \in OwnHeaders(c) : Guarded(c, h, st)
    \/ Tick

SpecRole == InitRole /\ [][NextRole]_vars

\* the role a register body asks for: student when it names none (or an empty one)
AskedRole(body) ==
    IF "role" \in DOMAIN body /\ body.role # "" THEN body.role ELSE STUDENT

\* the record a 201 register response names has the asked role, and so has the
\* token of the response
RegisteredAsAsked ==
    \A c \in Clients :
        last[c].op = "register" /\ StatusOf(c) = 201 =>
            LET data == last[c].sent[1].json.data
            IN  /\ AskedRole(last[c].req.body) \in UserRole
                /\ data.user.id \in 1..Len(users)
                /\ users[data.user.id].role = AskedRole(last[c].req.body)
                /\ data.token[2].role = AskedRole(last[c].req.body)
                /\ data.token[2].id = data.user.id
                /\ last[c].req.headers = NoFields

\* a client whose last exchange was its registration calls a route behind
\* protect and authorize(R) with the token of that response: where protect
\* accepts the token the identity has the asked role, and the handler is reached
\* exactly when the asked role is in R
FreshTokenPasses ==
    \A c \in Clients :
        (/\ last[c].op = "register"
         /\ StatusOf(c) = 201
         /\ last'[c].op = "guarded"
         /\ last'[c].req.headers =
                [authorization |-> Bearer \o last[c].sent[1].json.data.token]) =>
            LET asked == AskedRole(last[c].req.body)
                chain == last'[c].chain
                decoded == verifyTokenAt(last[c].sent[1].json.data.token, last'[c].at)
            IN  /\ chain[1].mw = "protect"
                /\ chain[1].out.next = 1 <=> decoded.ok
                /\ decoded.ok =>
                      /\ Len(chain) = 2
                      /\ chain[2].mw = "authorize"
                      /\ chain[2].in.user.role = asked
                      /\ last'[c].handled <=> asked \in chain[2].roles
                      /\ ~last'[c].handled => last'[c].sent[1].status = 403

\* C11: the role of a record created by register is decided by the request body
\* alone, without credentials: student when the body names no role, the named
\* role of the enum otherwise, and the token of that registration carries the
\* same role; the identity protect attaches for the freshly registered user
\* passes authorize(R) exactly when that asked role is in R.
C11_RoleIsSelfAssigned == []RegisteredAsAsked /\ [][FreshTokenPasses]_vars

\* a client that registered asking for admin, with no credentials, has reached
\* the handler of a route behind protect and authorize(admin)
C11_Witness ==
    \E c \in Clients :
        /\ last[c].op = "guarded"
        /\ last[c].handled
        /\ Len(last[c].chain) = 2
        /\ last[c].chain[2].roles = {ADMIN}
        /\ last[c].chain[2].in.user.role = ADMIN
        /\ users[last[c].chain[2].in.user.id].role = ADMIN

====
